---- MODULE Spec2Model ----
(***************************************************************************)
(* Model of archivebox/config/legacy.py: the layered configuration         *)
(* resolver (load_config_val, load_config, load_config_file) and the       *)
(* backed-up read-modify-write of the INI config file (write_config_file). *)
(*                                                                         *)
(* A Python str is a sequence of one-character strings; "sup2" stands for  *)
(* the single character U+00B2 (SUPERSCRIPT TWO).                          *)
(***************************************************************************)
EXTENDS Integers, Sequences, FiniteSets, TLC

VARIABLES
    env,      \* os.environ: partial map name -> str
    file,     \* content of CONSTANTS.CONFIG_FILE, or Absent
    bak,      \* content of CONFIG_FILE + ".bak", or Absent
    inproc,   \* per process: attribute values of the section objects
    pc,       \* per process: position inside write_config_file
    loc,      \* per process: locals of the running write_config_file call
    call,     \* arguments of the resolver call being made
    ret,      \* what the resolver call returned or raised
    hist      \* history: who wrote what last, and what each process had seen

vars == <<env, file, bak, inproc, pc, loc, call, ret, hist>>

(***************************************************************************)
(* Bounds of the model                                                     *)
(***************************************************************************)
MaxLen == 2       \* raw values: every string over SmallAlphabet up to this length
MaxAliases == 2   \* aliases of the key resolved by load_config_val

(***************************************************************************)
(* str methods                                                             *)
(***************************************************************************)
UpperSeq == <<"A","B","C","D","E","F","G","H","I","J","K","L","M",
              "N","O","P","Q","R","S","T","U","V","W","X","Y","Z">>
LowerSeq == <<"a","b","c","d","e","f","g","h","i","j","k","l","m",
              "n","o","p","q","r","s","t","u","v","w","x","y","z">>

lower_char(c) ==
    IF \E i \in 1..26 : UpperSeq[i] = c
    THEN LowerSeq[CHOOSE i \in 1..26 : UpperSeq[i] = c]
    ELSE c

\* str.lower()
lower(s) == [i \in 1..Len(s) |-> lower_char(s[i])]

WHITESPACE == {" ", "\t"}

RECURSIVE lstrip(_)
lstrip(s) ==
    IF s # <<>> /\ Head(s) \in WHITESPACE THEN lstrip(Tail(s)) ELSE s

RECURSIVE rstrip(_)
rstrip(s) ==
    IF s # <<>> /\ s[Len(s)] \in WHITESPACE
    THEN rstrip(SubSeq(s, 1, Len(s) - 1))
    ELSE s

\* str.strip()
strip(s) == rstrip(lstrip(s))

DigitSeq == <<"0","1","2","3","4","5","6","7","8","9">>
DIGITS == {DigitSeq[i] : i \in 1..10}

\* str.isdigit(): non-empty and every character has the Unicode digit
\* property, which U+00B2 has although int() does not accept it
isdigit(s) == s # <<>> /\ \A i \in 1..Len(s) : s[i] \in DIGITS \cup {"sup2"}

DigitVal(c) == (CHOOSE i \in 1..10 : DigitSeq[i] = c) - 1

RECURSIVE DecimalValue(_)
DecimalValue(s) ==
    IF s = <<>> THEN 0
    ELSE 10 * DecimalValue(SubSeq(s, 1, Len(s) - 1)) + DigitVal(s[Len(s)])

(***************************************************************************)
(* Python values: one record shape for every type                          *)
(***************************************************************************)
NoneV == [t |-> "None", n |-> 0, s |-> <<>>]
BoolV(b) == [t |-> "bool", n |-> IF b THEN 1 ELSE 0, s |-> <<>>]
IntV(k) == [t |-> "int", n |-> k, s |-> <<>>]
StrV(x) == [t |-> "str", n |-> 0, s |-> x]
PathV(x) == [t |-> "Path", n |-> 0, s |-> x]
JsonV(x) == [t |-> "json", n |-> 0, s |-> x]

Returned(v) == [exc |-> "none", v |-> v]
Raised(e) == [exc |-> e, v |-> NoneV]

\* int(str) as called on a value that passed isdigit()
int(s) ==
    IF \A i \in 1..Len(s) : s[i] \in DIGITS
    THEN Returned(IntV(DecimalValue(s)))
    ELSE Raised("ValueError")

\* JSON number without exponent: -? (0 | [1-9][0-9]*) (. [0-9]+)?
AllDigits(s) == s # <<>> /\ \A i \in 1..Len(s) : s[i] \in DIGITS
JsonInt(s) == AllDigits(s) /\ (Len(s) = 1 \/ s[1] # "0")
JsonUnsigned(s) ==
    \/ JsonInt(s)
    \/ \E d \in 1..Len(s) :
          /\ s[d] = "."
          /\ JsonInt(SubSeq(s, 1, d - 1))
          /\ AllDigits(SubSeq(s, d + 1, Len(s)))
JsonNumber(s) ==
    s # <<>> /\ (IF s[1] = "-" THEN JsonUnsigned(Tail(s)) ELSE JsonUnsigned(s))

JsonLiterals == { <<"t","r","u","e">>, <<"f","a","l","s","e">>,
                  <<"n","u","l","l">>, <<"[","]">>, <<"{","}">> }

\* json.loads(): the document may be surrounded by whitespace; of the raw
\* values drawn below, the valid documents are the literals, the empty
\* containers and the numbers
json_loads(s) ==
    IF strip(s) \in JsonLiterals \/ JsonNumber(strip(s))
    THEN Returned(JsonV(strip(s)))
    ELSE Raised("ValueError")

\* pathlib.Path(str): the empty path is the current directory
Path(s) == PathV(IF s = <<>> THEN <<".">> ELSE s)

(***************************************************************************)
(* load_config_val                                                         *)
(***************************************************************************)
BOOL_TRUEIES == { <<"t","r","u","e">>, <<"y","e","s">>, <<"1">> }
BOOL_FALSEIES == { <<"f","a","l","s","e">>, <<"n","o">>, <<"0">> }

\* a default is a literal or a callable of the partially resolved config;
\* the callable subscripts the config: lambda c: c[dep]
LitDefault(v) == [fn |-> FALSE, v |-> v, dep |-> "-"]
FnDefault(k) == [fn |-> TRUE, v |-> NoneV, dep |-> k]

apply_default(default, config) ==
    IF default.fn
    THEN IF default.dep \in DOMAIN config
         THEN Returned(config[default.dep])
         ELSE Raised("KeyError")
    ELSE Returned(default.v)

\* the empty dict
EmptyMap == [k \in {} |-> <<>>]

\* dict.get(key): None when the key is missing
NoVal == [some |-> FALSE, s |-> <<>>]
SomeVal(s) == [some |-> TRUE, s |-> s]
get(m, k) == IF k \in DOMAIN m THEN SomeVal(m[k]) ELSE NoVal
\* truth value of an Optional[str] and of a mapping
truthy(val) == val.some /\ val.s # <<>>
nonempty(m) == DOMAIN m # {}

\* the for loop over config_keys_to_check: the value of val when the loop
\* is left, by break or by running out of keys
RECURSIVE probe_loop(_, _, _, _, _)
probe_loop(keys, i, val, env_vars, config_file_vars) ==
    IF i > Len(keys) THEN val
    ELSE LET v1 == IF nonempty(env_vars) THEN get(env_vars, keys[i]) ELSE val
             v2 == IF nonempty(config_file_vars)
                   THEN get(config_file_vars, keys[i])
                   ELSE v1
         IN  IF nonempty(env_vars) /\ truthy(v1) THEN v1
             ELSE IF nonempty(config_file_vars) /\ truthy(v2) THEN v2
             ELSE probe_loop(keys, i + 1, v2, env_vars, config_file_vars)

\* the probe names with the aliases put before the primary name
config_keys_to_check_aliases_first(key, aliases) == aliases \o <<key>>

config_keys_to_check(key, aliases) == <<key>> \o aliases

\* coerce_bool with the value trimmed before it is compared
coerce_bool_trimmed(val) ==
    IF lower(strip(val)) \in BOOL_TRUEIES THEN Returned(BoolV(TRUE))
    ELSE IF lower(strip(val)) \in BOOL_FALSEIES THEN Returned(BoolV(FALSE))
    ELSE Raised("ValueError")

\* type is bool
coerce_bool(val) ==
    IF lower(val) \in BOOL_TRUEIES THEN Returned(BoolV(TRUE))
    ELSE IF lower(val) \in BOOL_FALSEIES THEN Returned(BoolV(FALSE))
    ELSE Raised("ValueError")

\* type is str
coerce_str(val) ==
    IF lower(val) \in BOOL_TRUEIES \cup BOOL_FALSEIES
    THEN Raised("ValueError")
    ELSE Returned(StrV(strip(val)))

\* coerce_int with the digit test made on the untrimmed value
coerce_int_untrimmed(val) ==
    IF ~isdigit(val) THEN Raised("ValueError")
    ELSE int(strip(val))

\* type is int
coerce_int(val) ==
    IF ~isdigit(strip(val)) THEN Raised("ValueError")
    ELSE int(strip(val))

\* "calculate value based on expected type"
coerce(type, val) ==
    IF type = "bool" THEN coerce_bool(val)
    ELSE IF type = "str" THEN coerce_str(val)
    ELSE IF type = "int" THEN coerce_int(val)
    ELSE IF type \in {"list", "dict"} THEN json_loads(val)
    ELSE IF type = "Path" THEN Returned(Path(val))
    ELSE Raised("Exception")

\* load_config_val without the is_read_only return: the sources are probed
\* for a key without a type as well
load_config_val_probing_read_only(key, default, type, aliases, config, env_vars, config_file_vars) ==
    LET val == probe_loop(config_keys_to_check(key, aliases), 1, NoVal,
                          env_vars, config_file_vars)
    IN  IF ~val.some THEN apply_default(default, config)
        ELSE coerce(type, val.s)

load_config_val(key, default, type, aliases, config, env_vars, config_file_vars) ==
    IF type = "None" THEN apply_default(default, config)
    ELSE LET val == probe_loop(config_keys_to_check(key, aliases), 1, NoVal,
                               env_vars, config_file_vars)
         IN  IF ~val.some THEN apply_default(default, config)
             ELSE coerce(type, val.s)

(***************************************************************************)
(* The config file: its text is a layout, a newline convention and the     *)
(* INI document it spells. The document is the DEFAULT section's options   *)
(* and the sections in file order; an option is <<key, value text>>.       *)
(* Values are single-line and hold no "%" (no interpolation).              *)
(*   layout "written": exactly what ConfigParser.write produces            *)
(*   layout "header":  CONFIG_HEADER, comment lines only                   *)
(*   layout "edited":  any other spelling (comments, spacing)              *)
(***************************************************************************)
EmptyDoc == [dflt |-> <<>>, secs |-> <<>>]
Content(layout, nl, doc) ==
    [exists |-> TRUE, layout |-> layout, nl |-> nl, doc |-> doc]
Absent == [exists |-> FALSE, layout |-> "-", nl |-> "-", doc |-> EmptyDoc]

CONFIG_HEADER == Content("header", "lf", EmptyDoc)

Section(name, opts) == [name |-> name, opts |-> opts]
OptKeys(opts) == { opts[i][1] : i \in 1..Len(opts) }
OptGet(opts, k) == opts[CHOOSE i \in 1..Len(opts) : opts[i][1] = k][2]
SectionNames(doc) == { doc.secs[i].name : i \in 1..Len(doc.secs) }
SectionOf(doc, name) ==
    doc.secs[CHOOSE i \in 1..Len(doc.secs) : doc.secs[i].name = name]

\* ConfigParser.read(): option values are stored trimmed
StripOpts(opts) == [i \in 1..Len(opts) |-> <<opts[i][1], strip(opts[i][2])>>]
ConfigParser_read(content) ==
    IF ~content.exists THEN EmptyDoc
    ELSE [dflt |-> StripOpts(content.doc.dflt),
          secs |-> [i \in 1..Len(content.doc.secs) |->
                      Section(content.doc.secs[i].name,
                              StripOpts(content.doc.secs[i].opts))]]

\* ConfigParser.write(): "key = value" lines, section after section
ConfigParser_write(doc) == Content("written", "lf", doc)

\* len() of the section and option names of the model
StrLen(name) ==
    CASE name = "SERVER_CONFIG" -> 13
      [] name = "ARCHIVING_CONFIG" -> 16
      [] name = "DEFAULT" -> 7
      [] OTHER -> 2

\* number of characters ConfigParser.write produces for a section:
\* "[name]\n", a "key = value\n" for every option, and "\n"
RECURSIVE OptsLen(_, _)
OptsLen(opts, i) ==
    IF i > Len(opts) THEN 0
    ELSE StrLen(opts[i][1]) + 3 + Len(opts[i][2]) + 1 + OptsLen(opts, i + 1)

SectionLen(name, opts) == 1 + StrLen(name) + 2 + OptsLen(opts, 1) + 1

\* the blocks ConfigParser.write produces: DEFAULT when it has options,
\* then the sections
Blocks(doc) ==
    (IF doc.dflt = <<>> THEN <<>> ELSE <<Section("DEFAULT", doc.dflt)>>) \o doc.secs

\* characters of the first k blocks
RECURSIVE BlocksLen(_, _)
BlocksLen(blocks, k) ==
    IF k = 0 THEN 0
    ELSE BlocksLen(blocks, k - 1) + SectionLen(blocks[k].name, blocks[k].opts)

TextLen(doc) == BlocksLen(Blocks(doc), Len(Blocks(doc)))

\* open(path, 'w+'): the file is there and empty
Truncated == Content("empty", "lf", EmptyDoc)

\* text that is no INI document: ConfigParser.read raises on it
Garbled == Content("garbled", "lf", EmptyDoc)
parses(content) == content.layout # "garbled"

\* the places of a written text where a line starts, n characters in:
\* <<k, j>> is the line after the header and j options of block k + 1
\* (after all its options: the empty line that ends the block)
LineStarts(blocks, n) ==
    { kj \in UNION { {k} \X (0..Len(blocks[k + 1].opts)) : k \in 0..(Len(blocks) - 1) } :
        BlocksLen(blocks, kj[1]) + StrLen(blocks[kj[1] + 1].name) + 3
            + OptsLen(SubSeq(blocks[kj[1] + 1].opts, 1, kj[2]), 1) = n }

\* no option twice in a block and no section twice (DEFAULT may come again)
WellFormedBlocks(blocks) ==
    /\ \A k \in 1..Len(blocks) :
          \A i, j \in 1..Len(blocks[k].opts) :
              blocks[k].opts[i][1] = blocks[k].opts[j][1] => i = j
    /\ \A k, l \in 1..Len(blocks) :
          (blocks[k].name = blocks[l].name /\ blocks[k].name # "DEFAULT") => k = l
    /\ \A k, l \in 1..Len(blocks) :
          (k # l /\ blocks[k].name = "DEFAULT" /\ blocks[l].name = "DEFAULT") =>
              OptKeys(blocks[k].opts) \cap OptKeys(blocks[l].opts) = {}

RECURSIVE DefaultOpts(_, _)
DefaultOpts(blocks, k) ==
    IF k > Len(blocks) THEN <<>>
    ELSE (IF blocks[k].name = "DEFAULT" THEN blocks[k].opts ELSE <<>>)
            \o DefaultOpts(blocks, k + 1)

\* the text ConfigParser.write would produce for the blocks' document
\* stands for the text made of the blocks
TextOf(blocks) ==
    IF ~WellFormedBlocks(blocks) THEN Garbled
    ELSE Content("written", "lf",
                 [dflt |-> DefaultOpts(blocks, 1),
                  secs |-> SelectSeq(blocks, LAMBDA b : b.name # "DEFAULT")])

\* text followed by option lines and by further blocks
Joined(text, opts, later) ==
    LET mine == Blocks(text.doc)
    IN  IF opts = <<>> THEN TextOf(mine \o later)
        ELSE IF mine = <<>> THEN Garbled
        ELSE TextOf([mine EXCEPT ![Len(mine)].opts = @ \o opts] \o later)

\* the write that leaves the file as it was
Overlay_nothing_written(text, cur) == {cur}

\* what the file holds after text is written from offset 0 into a file that
\* holds cur: text replaces the first len(text) characters and what cur
\* holds beyond them stays. When that rest starts at the beginning of a
\* line, its option lines go on with the last section of text and its
\* sections follow; a rest that starts inside a line is taken to be no INI
\* document; of a cur that ConfigParser.write did not produce the length
\* is not known
Overlay(text, cur) ==
    IF cur = Truncated THEN {text}
    ELSE IF cur.layout # "written" THEN {text, Garbled}
    ELSE IF TextLen(cur.doc) <= TextLen(text.doc) THEN {text}
    ELSE LET blocks == Blocks(cur.doc)
             n == TextLen(text.doc)
         IN  IF \E k \in 0..Len(blocks) : BlocksLen(blocks, k) = n
             THEN LET k == CHOOSE k \in 0..Len(blocks) : BlocksLen(blocks, k) = n
                  IN  {Joined(text, <<>>, SubSeq(blocks, k + 1, Len(blocks)))}
             ELSE IF LineStarts(blocks, n) # {}
             THEN LET kj == CHOOSE kj \in LineStarts(blocks, n) : TRUE
                      opts == blocks[kj[1] + 1].opts
                  IN  {Joined(text, SubSeq(opts, kj[2] + 1, Len(opts)),
                              SubSeq(blocks, kj[1] + 2, Len(blocks)))}
             ELSE {Garbled}

\* open(path, 'r').read(): universal newlines, "\r\n" is read as "\n"
read_text(content) == [content EXCEPT !.nl = "lf"]

\* dict(config_file[section]) / options.items(): the section's own
\* options, then the DEFAULT options the section does not set
section_items(doc, opts) ==
    opts \o SelectSeq(doc.dflt, LAMBDA o : o[1] \notin OptKeys(opts))

\* key.upper() on the option names of the model
upper_key(k) ==
    CASE k = "k1" -> "K1"
      [] k = "k2" -> "K2"
      [] k = "k3" -> "K3"
      [] OTHER -> k

RECURSIVE all_items(_, _)
all_items(doc, i) ==
    IF i > Len(doc.secs) THEN <<>>
    ELSE section_items(doc, doc.secs[i].opts) \o all_items(doc, i + 1)

\* the dict comprehension: a later item replaces an earlier one
flatten(items) ==
    [K \in { upper_key(items[i][1]) : i \in 1..Len(items) } |->
        LET last == CHOOSE i \in 1..Len(items) :
                        /\ upper_key(items[i][1]) = K
                        /\ \A j \in (i + 1)..Len(items) : upper_key(items[j][1]) # K
        IN  items[last][2]]

NoFileVars == [some |-> FALSE, m |-> EmptyMap]

\* os.access(config_path, os.R_OK): the file is there and may be read
readable(content) == content.exists /\ content.layout # "unreadable"

load_config_file(config_path) ==
    IF ~readable(config_path) THEN NoFileVars
    ELSE LET doc == ConfigParser_read(config_path)
         IN  [some |-> TRUE, m |-> flatten(doc.dflt \o all_items(doc, 1))]

(***************************************************************************)
(* load_config                                                             *)
(***************************************************************************)
Put(m, k, v) == [x \in DOMAIN m \cup {k} |-> IF x = k THEN v ELSE m[x]]

\* the for loop over defaults.items(): a key whose load_config_val raises
\* is reported on stderr and not assigned
RECURSIVE load_config_loop(_, _, _, _, _, _)
load_config_loop(defaults, i, extended_config, errors, env_vars, config_file_vars) ==
    IF i > Len(defaults) THEN [config |-> extended_config, errors |-> errors]
    ELSE LET d == defaults[i]
             r == load_config_val(d.key, d.default, d.type, d.aliases,
                                  extended_config, env_vars, config_file_vars)
         IN  IF r.exc = "none"
             THEN load_config_loop(defaults, i + 1, Put(extended_config, d.key, r.v),
                                   errors, env_vars, config_file_vars)
             ELSE load_config_loop(defaults, i + 1, extended_config,
                                   Append(errors, [key |-> d.key, exc |-> r.exc]),
                                   env_vars, config_file_vars)

\* load_config that gives up at the first key that raises
load_config_aborting(defaults, config, environ, config_path) ==
    LET r == load_config_loop(defaults, 1, config, <<>>, environ,
                              load_config_file(config_path).m)
    IN  IF r.errors # <<>>
        THEN [exc |-> r.errors[1].exc, v |-> NoneV, config |-> EmptyMap,
              errors |-> <<r.errors[1]>>]
        ELSE [exc |-> "none", v |-> NoneV, config |-> r.config, errors |-> r.errors]

\* load_config(defaults, config) with env_vars and config_file_vars left
\* to os.environ and load_config_file()
load_config(defaults, config, environ, config_path) ==
    LET r == load_config_loop(defaults, 1, config, <<>>, environ,
                              load_config_file(config_path).m)
    IN  [exc |-> "none", v |-> NoneV, config |-> r.config, errors |-> r.errors]

(***************************************************************************)
(* The section registry (settings.CONFIGS): each section owns declared     *)
(* keys, has a header name in the file and holds its values as attributes  *)
(***************************************************************************)
Declared(key, type, default, aliases) ==
    [key |-> key, type |-> type, default |-> default, aliases |-> aliases]

\* the declared keys, in declaration order
Schema == <<
    Declared("K1", "bool", LitDefault(BoolV(TRUE)), <<"A1">>),
    Declared("K2", "int", LitDefault(IntV(60)), <<>>),
    Declared("K3", "str", FnDefault("K2"), <<>>),
    Declared("K4", "None", FnDefault("K1"), <<>>) >>

CONFIGS == <<
    [toml_section_header |-> "SERVER_CONFIG", declared |-> <<1, 2>>],
    [toml_section_header |-> "ARCHIVING_CONFIG", declared |-> <<3, 4>>] >>

\* hasattr(config_section, key)
hasattr(sec, key) ==
    \E j \in 1..Len(CONFIGS[sec].declared) : Schema[CONFIGS[sec].declared[j]].key = key

\* the first section with the attribute, 0 for None
section_for_key(key) ==
    IF \E sec \in 1..Len(CONFIGS) : hasattr(sec, key)
    THEN CHOOSE sec \in 1..Len(CONFIGS) :
             /\ hasattr(sec, key)
             /\ \A t \in 1..(sec - 1) : ~hasattr(t, key)
    ELSE 0

\* section.update_in_place(warn=False, persist=False, **{key: val}): the
\* section object holds the pending value
update_in_place(attrs, key, val) == Put(attrs, key, StrV(val))

\* section.__init__(): the section's declared keys are resolved again from
\* the environment and the config file; a value that fails coercion raises
\* and leaves the section as it was, and so does a file that does not parse
RECURSIVE section_init(_, _, _, _, _, _)
section_init(sec, j, flat_config, attrs, environ, config_path) ==
    IF ~parses(config_path) THEN [exc |-> "ParsingError", attrs |-> attrs]
    ELSE IF j > Len(CONFIGS[sec].declared) THEN [exc |-> "none", attrs |-> attrs]
    ELSE LET d == Schema[CONFIGS[sec].declared[j]]
             r == load_config_val(d.key, d.default, d.type, d.aliases,
                                  flat_config @@ attrs, environ,
                                  load_config_file(config_path).m)
         IN  IF r.exc # "none" THEN [exc |-> r.exc, attrs |-> attrs]
             ELSE section_init(sec, j + 1, flat_config, Put(attrs, d.key, r.v),
                               environ, config_path)

\* load_all_config(): every section is initialised again and dumped into
\* one flat mapping; the first section that raises ends the call
RECURSIVE load_all_config(_, _, _, _, _)
load_all_config(sec, flat_config, attrs, environ, config_path) ==
    IF sec > Len(CONFIGS)
    THEN [exc |-> "none", flat_config |-> flat_config, attrs |-> attrs]
    ELSE LET r == section_init(sec, 1, flat_config, EmptyMap, environ, config_path)
         IN  IF r.exc # "none"
             THEN [exc |-> r.exc, flat_config |-> flat_config, attrs |-> attrs]
             ELSE load_all_config(sec + 1, r.attrs @@ flat_config,
                                  r.attrs @@ attrs, environ, config_path)

(***************************************************************************)
(* write_config_file, step by step                                         *)
(***************************************************************************)
\* the merge with its operands swapped, {key: val, **existing_config}: an
\* existing value wins over the new one
dict_merge_existing_wins(existing, key, val) ==
    IF key \in OptKeys(existing) THEN existing
    ELSE <<<<key, val>>>> \o existing

\* {**existing_config, key: val}: an existing key keeps its place
dict_merge(existing, key, val) ==
    IF key \in OptKeys(existing)
    THEN [i \in 1..Len(existing) |->
             IF existing[i][1] = key THEN <<key, val>> ELSE existing[i]]
    ELSE Append(existing, <<key, val>>)

\* the assignment made on a fresh document: the other sections are lost
set_section_alone(doc, name, opts) ==
    [doc EXCEPT !.secs = <<Section(name, opts)>>]

\* config_file[section_name] = options: an existing section keeps its place
set_section(doc, name, opts) ==
    IF name \in SectionNames(doc)
    THEN [doc EXCEPT !.secs = [i \in 1..Len(doc.secs) |->
             IF doc.secs[i].name = name THEN Section(name, opts) ELSE doc.secs[i]]]
    ELSE [doc EXCEPT !.secs = Append(doc.secs, Section(name, opts))]

\* the for loop over config.items(): a key without owning section fails
\* the assertion and ends the loop with what was applied before it
RECURSIVE merge_loop(_, _, _, _)
merge_loop(config, i, config_file, attrs) ==
    IF i > Len(config)
    THEN [exc |-> "none", config_file |-> config_file, attrs |-> attrs]
    ELSE LET key == config[i][1]
             val == config[i][2]
             section == section_for_key(key)
         IN  IF section = 0
             THEN [exc |-> "AssertionError", config_file |-> config_file,
                   attrs |-> attrs]
             ELSE LET section_name == CONFIGS[section].toml_section_header
                      existing_config ==
                          IF section_name \in SectionNames(config_file)
                          THEN section_items(config_file,
                                             SectionOf(config_file, section_name).opts)
                          ELSE <<>>
                  IN  merge_loop(config, i + 1,
                                 set_section(config_file, section_name,
                                             dict_merge(existing_config, key, val)),
                                 update_in_place(attrs, key, val))

\* atomic_write(path, contents): the file holds the given text
atomic_write(contents) == [contents EXCEPT !.exists = TRUE]

\* the except branch without the restore: the file stays as written
restore_skipped(current, backup) == current

\* the restore in the except branch: config_path gets the text of the .bak
restore(current, backup) == atomic_write(read_text(backup))

\* the mapping returned made of the input strings instead
returned_config_echo(config, updated_config) ==
    [K \in { upper_key(config[i][1]) : i \in 1..Len(config) } |->
        StrV(config[CHOOSE i \in 1..Len(config) : upper_key(config[i][1]) = K][2])]

\* the mapping returned: key.upper() -> updated_config.get(key.upper())
returned_config(config, updated_config) ==
    [K \in { upper_key(config[i][1]) : i \in 1..Len(config) } |->
        IF K \in DOMAIN updated_config THEN updated_config[K] ELSE NoneV]

(***************************************************************************)
(* Inputs of the resolver calls                                            *)
(***************************************************************************)
Str2(a, b) == <<a, b>>

\* every str over an alphabet of length at most n
StringsUpTo(alphabet, n) == UNION { [1..k -> alphabet] : k \in 0..n }

SmallAlphabet == {"0", "1", "n", "o", "N", " ", "-", "."}

CuratedVals == {
    <<"t","r","u","e">>, <<"T","r","u","e">>, <<"T","R","U","E">>,
    <<"y","e","s">>, <<"Y","e","s">>, <<"Y","E","S">>,
    <<"f","a","l","s","e">>, <<"F","a","l","s","e">>, <<"F","A","L","S","E">>,
    <<"N","O">>,
    <<" ","t","r","u","e"," ">>, <<"t","r","u","e"," ">>, <<"\t","n","o">>,
    <<" ","F","a","l","s","e">>, <<"y","e","s","\t">>,
    <<"m","a","y","b","e">>, <<"t","r","u","e","1">>, <<"o","n">>,
    <<"4","2">>, <<" ","4","2"," ">>, <<"0","0","7">>, <<"4",".","2">>,
    <<"f","o","r","t","y">>, <<"+","5">>, <<"4","2","a">>, <<"4"," ","2">>,
    <<"sup2">>, <<"4","sup2">>,
    <<"a","b","c">>, <<" ","a","b"," ">>, <<"[","]">>, <<"{","}">>,
    <<"n","u","l","l">>, <<"[">> }

RawVals == CuratedVals \cup StringsUpTo(SmallAlphabet, MaxLen)

PrimaryName == "K"
AliasPool == <<"A1", "A2", "A3", "A4">>

\* the value a source holds under the i-th probe name: distinct for every
\* source and name, and well-formed as an int and as a str
Sentinel(src, i) == Str2(DigitSeq[src + 1], DigitSeq[i + 1])

IndexOf(seq, x) == CHOOSE i \in 1..Len(seq) : seq[i] = x

\* the maps from some of the probe names to "" or to the name's sentinel
SourceMaps(names, src) ==
    LET N == {names[i] : i \in 1..Len(names)}
    IN  { [k \in D |-> IF k \in E THEN <<>> ELSE Sentinel(src, IndexOf(names, k))] :
            <<D, E>> \in { de \in (SUBSET N) \X (SUBSET N) : de[2] \subseteq de[1] } }

DefaultLiteral == StrV(<<"d","f","l","t">>)
DepValue == StrV(<<"d","e","p">>)
DefaultCases ==
    { [default |-> LitDefault(DefaultLiteral), config |-> EmptyMap],
      [default |-> FnDefault("DEP"), config |-> [k \in {"DEP"} |-> DepValue]],
      [default |-> FnDefault("DEP"), config |-> EmptyMap] }

AllTypes == {"bool", "str", "int", "list", "dict", "Path", "float", "None"}

ValCall(key, dc, type, aliases, env_vars, config_file_vars) ==
    [op |-> "load_config_val", key |-> key, default |-> dc.default,
     type |-> type, aliases |-> aliases, config |-> dc.config,
     env_vars |-> env_vars, config_file_vars |-> config_file_vars]

\* the probe names of a key with the first na aliases of the pool
ProbeList(na) == <<PrimaryName>> \o SubSeq(AliasPool, 1, na)

\* the call is one that varies where the sources hold a value
PrecedenceCall(c) ==
    \E na \in 0..MaxAliases :
        \E dc \in DefaultCases, type \in {"str", "int", "None"} :
            \E e \in SourceMaps(ProbeList(na), 1), f \in SourceMaps(ProbeList(na), 2) :
                c = ValCall(PrimaryName, dc, type, SubSeq(AliasPool, 1, na), e, f)

\* calls that vary the raw value one source holds under the primary name
CoercionCalls ==
    { ValCall(PrimaryName, [default |-> LitDefault(DefaultLiteral), config |-> EmptyMap],
              type, <<>>,
              IF src = 1 THEN [k \in {PrimaryName} |-> raw] ELSE EmptyMap,
              IF src = 2 THEN [k \in {PrimaryName} |-> raw] ELSE EmptyMap) :
        type \in AllTypes, raw \in RawVals, src \in {1, 2} }

(***************************************************************************)
(* State outside the resolver calls                                        *)
(***************************************************************************)
NoCall == [op |-> "none"]
NoRet == [exc |-> "pending", v |-> NoneV]
Procs == {1, 2}

\* the locals of write_config_file before it is called; old and old_bak
\* are what the two `with open(...) as old` blocks find on disk, parsed is
\* config_file as line 190 left it
IdleLoc ==
    [config |-> <<>>, config_file |-> EmptyDoc, parsed |-> EmptyDoc,
     updated_config |-> EmptyMap,
     result |-> EmptyMap, verr |-> "none", exc |-> "none",
     pre_file |-> Absent, pre_attrs |-> EmptyMap,
     old |-> Absent, old_bak |-> Absent]

\* nothing has happened yet
NoHist ==
    [flushed |-> {},                       \* processes whose line 211 has run
     seen |-> [p \in Procs |-> {}],         \* flushed, as it was when p parsed
     last_flush |-> 0,                     \* the process whose line 211 ran last
     overlap |-> FALSE,                    \* a file write fell between another
                                           \* process's lines 210 and 211
     orphaned |-> {},                      \* processes between lines 210 and
                                           \* 211 whose open file was replaced
     bak_by |-> 0]                         \* the process that wrote the .bak

Quiescent ==
    /\ hist = NoHist
    /\ env = EmptyMap
    /\ file = Absent
    /\ bak = Absent
    /\ inproc = [p \in Procs |-> EmptyMap]
    /\ pc = [p \in Procs |-> "idle"]
    /\ loc = [p \in Procs |-> IdleLoc]

(***************************************************************************)
(* SpecVal: one call of load_config_val on drawn arguments                 *)
(***************************************************************************)
InitVal ==
    /\ Quiescent
    /\ \/ PrecedenceCall(call)
       \/ call \in CoercionCalls
    /\ ret = NoRet

LoadConfigVal ==
    /\ call.op = "load_config_val"
    /\ ret = NoRet
    /\ ret' = load_config_val(call.key, call.default, call.type, call.aliases,
                              call.config, call.env_vars, call.config_file_vars)
    /\ UNCHANGED <<env, file, bak, inproc, pc, loc, call, hist>>

NextVal == LoadConfigVal

SpecVal == InitVal /\ [][NextVal]_vars

(***************************************************************************)
(* Claims about load_config_val (checked under SpecVal)                    *)
(***************************************************************************)
ValDone == call.op = "load_config_val" /\ ret # NoRet

ProbeNames == config_keys_to_check(call.key, call.aliases)

\* the raw value the lookup settled on, None when it found nothing
Found == probe_loop(ProbeNames, 1, NoVal, call.env_vars, call.config_file_vars)

\* the probe names under which a source holds a non-empty value
HeldIn(src) ==
    { i \in 1..Len(ProbeNames) : truthy(get(src, ProbeNames[i])) }

TrueTokens == { <<"t","r","u","e">>, <<"y","e","s">>, <<"1">> }
FalseTokens == { <<"f","a","l","s","e">>, <<"n","o">>, <<"0">> }

\* C1: for a typed key, a non-empty environment value under any probe name
\* makes the result the coercion of an environment value, whatever the
\* config file holds; a config-file value is used only when the environment
\* holds none; the default is used only when neither source holds one.
C1_EnvironmentBeatsFile ==
    (ValDone /\ call.type # "None") =>
        /\ HeldIn(call.env_vars) # {} =>
              \E i \in HeldIn(call.env_vars) :
                  ret = coerce(call.type, call.env_vars[ProbeNames[i]])
        /\ (HeldIn(call.env_vars) = {} /\ HeldIn(call.config_file_vars) # {}) =>
              \E i \in HeldIn(call.config_file_vars) :
                  ret = coerce(call.type, call.config_file_vars[ProbeNames[i]])
        /\ ret = apply_default(call.default, call.config) =>
              (HeldIn(call.env_vars) = {} /\ HeldIn(call.config_file_vars) = {})

\* C8: for a bool key with a found raw value the result is True exactly
\* when the value, lower-cased, is one of true/yes/1, False exactly when it
\* is one of false/no/0, and a ValueError for every other value.
C8_BoolGrammar ==
    (ValDone /\ call.type = "bool" /\ Found.some) =>
        /\ ret = Returned(BoolV(TRUE)) <=> lower(Found.s) \in TrueTokens
        /\ ret = Returned(BoolV(FALSE)) <=> lower(Found.s) \in FalseTokens
        /\ ret.exc = "ValueError" <=> lower(Found.s) \notin TrueTokens \cup FalseTokens
        /\ ret.exc \in {"none", "ValueError"}

\* a bool key whose raw value "YES" came back as True
C8_Witness ==
    /\ ValDone /\ call.type = "bool"
    /\ Found = SomeVal(<<"Y","E","S">>)
    /\ ret = Returned(BoolV(TRUE))

\* C9: for a str key every raw value that, lower-cased, is a boolean token
\* raises, and the value returned is never a boolean token.
C9_StrNeverBoolToken ==
    (ValDone /\ call.type = "str" /\ Found.some) =>
        /\ lower(Found.s) \in TrueTokens \cup FalseTokens => ret.exc = "ValueError"
        /\ ret.exc = "none" => lower(ret.v.s) \notin TrueTokens \cup FalseTokens

\* C10: for an int key with a found raw value the result is the integer the
\* trimmed value denotes when that consists solely of the digits 0-9, and a
\* ValueError for every other value.
C10_IntGrammar ==
    (ValDone /\ call.type = "int" /\ Found.some) =>
        IF AllDigits(strip(Found.s))
        THEN /\ ret.exc = "none" /\ ret.v.t = "int"
             /\ ret.v.n = DecimalValue(strip(Found.s))
             /\ (strip(Found.s) = <<"4","2">> => ret.v.n = 42)
             /\ (strip(Found.s) = <<"0","0","7">> => ret.v.n = 7)
        ELSE ret.exc = "ValueError"

\* an int key whose raw value " 42 " came back as 42
C10_Witness ==
    /\ ValDone /\ call.type = "int"
    /\ Found = SomeVal(<<" ","4","2"," ">>)
    /\ ret = Returned(IntV(42))

\* the primary name, then the aliases as declared
DeclaredOrder == <<call.key>> \o call.aliases

\* the positions in DeclaredOrder under which a source holds a non-empty value
HeldAt(src) ==
    { i \in 1..Len(DeclaredOrder) : truthy(get(src, DeclaredOrder[i])) }

\* the first position under which either source holds a non-empty value
FirstHeld ==
    CHOOSE i \in HeldAt(call.env_vars) \cup HeldAt(call.config_file_vars) :
        \A j \in HeldAt(call.env_vars) \cup HeldAt(call.config_file_vars) : i <= j

\* C15: the names are tried in the order primary name, aliases as declared,
\* and the first name with a non-empty value wins: the result is coerced
\* from the value under the first such name (so within one source the
\* primary name beats every alias and an earlier alias a later one), and
\* when only one alias holds a value, in the environment, the result is
\* that value coerced.
C15_FirstNameWins ==
    (ValDone /\ call.type # "None"
        /\ HeldAt(call.env_vars) \cup HeldAt(call.config_file_vars) # {}) =>
        /\ ret = coerce(call.type,
                        IF FirstHeld \in HeldAt(call.env_vars)
                        THEN call.env_vars[DeclaredOrder[FirstHeld]]
                        ELSE call.config_file_vars[DeclaredOrder[FirstHeld]])
        /\ \A i \in 2..Len(DeclaredOrder) :
              (HeldAt(call.env_vars) = {i} /\ HeldAt(call.config_file_vars) = {}) =>
                  ret = coerce(call.type, call.env_vars[DeclaredOrder[i]])

\* an int key with two aliases whose environment holds a value under both
\* aliases and not under the primary name: the first alias's 12 came back
C15_Witness ==
    /\ ValDone /\ call.type = "int"
    /\ Len(call.aliases) = 2
    /\ HeldAt(call.env_vars) = {2, 3}
    /\ HeldAt(call.config_file_vars) = {}
    /\ ret = Returned(IntV(12))

\* C11: for a key declared without a type the result is the default (or the
\* default applied to the config passed in) and is the same as that of the
\* call made with an empty environment and an empty file map, so any two
\* calls that differ only in those two maps return the same.
C11_ReadOnlyIgnoresSources ==
    (ValDone /\ call.type = "None") =>
        /\ ret = apply_default(call.default, call.config)
        /\ ret = load_config_val(call.key, call.default, call.type, call.aliases,
                                 call.config, EmptyMap, EmptyMap)

\* a key without a type came back as its default although the environment
\* and the file both hold a value under its name
C11_Witness ==
    /\ ValDone /\ call.type = "None"
    /\ truthy(get(call.env_vars, call.key))
    /\ truthy(get(call.config_file_vars, call.key))
    /\ ret = Returned(DefaultLiteral)

\* C16: for a typed key, when every probe name is missing or mapped to the
\* empty string in both sources, the call returns the default (the literal,
\* or the callable's result on the config) and raises nothing of its own.
C16_NothingHeldGivesDefault ==
    (ValDone /\ call.type # "None"
        /\ HeldAt(call.env_vars) \cup HeldAt(call.config_file_vars) = {}) =>
        ret = apply_default(call.default, call.config)

(***************************************************************************)
(* SpecLoad: one call of load_config(defaults, config) over a drawn        *)
(* environment, config file and explicit config                            *)
(***************************************************************************)
MapOf(pairs) ==
    [k \in { q[1] : q \in pairs } |-> (CHOOSE q \in pairs : q[1] = k)[2]]

\* a choice is <<>> (the name is not set) or <<text>>
Chosen(name, choice) == IF choice = <<>> THEN {} ELSE {<<name, choice[1]>>}

LoadEnvs ==
    { MapOf(Chosen("K1", c1) \cup Chosen("A1", a1) \cup Chosen("K2", c2)
            \cup Chosen("K3", c3)) :
        c1 \in {<<>>, <<<<"F","a","l","s","e">>>>, <<<<"m","a","y","b","e">>>>},
        a1 \in {<<>>, <<<<"y","e","s">>>>},
        c2 \in {<<>>, <<<<"4","2">>>>, <<<<"4",".","2">>>>},
        c3 \in {<<>>, <<<<"a","b","c">>>>, <<<<"t","r","u","e">>>>} }

OptsOf(choices) ==
    LET one(c) == IF c[2] = <<>> THEN <<>> ELSE << <<c[1], c[2][1]>> >>
    IN  IF Len(choices) = 1 THEN one(choices[1])
        ELSE one(choices[1]) \o one(choices[2])

LoadFiles ==
    {Absent} \cup
    { Content("edited", "lf",
              [dflt |-> <<>>,
               secs |-> << Section("SERVER_CONFIG", OptsOf(<< <<"K1", c1>>, <<"K2", c2>> >>)),
                           Section("ARCHIVING_CONFIG", OptsOf(<< <<k3, c3>> >>)) >>]) :
        c1 \in {<<>>, <<<<"n","o">>>>},
        c2 \in {<<>>, <<<<"7">>>>, <<<<"x">>>>},
        c3 \in {<<>>, <<<<"x","y","z">>>>},
        k3 \in {"K3", "k3"} }

LoadOverrides ==
    { MapOf(ps) : ps \in SUBSET { <<"K1", StrV(<<"o","v","r">>)>>,
                                  <<"K2", IntV(1000)>>,
                                  <<"K3", StrV(<<"o","v","r","3">>)>> } }

InitLoad ==
    /\ env \in LoadEnvs
    /\ file \in LoadFiles
    /\ bak = Absent
    /\ inproc = [p \in Procs |-> EmptyMap]
    /\ pc = [p \in Procs |-> "idle"]
    /\ loc = [p \in Procs |-> IdleLoc]
    /\ call \in { [op |-> "load_config", defaults |-> Schema, config |-> o] :
                    o \in LoadOverrides }
    /\ ret = NoRet
    /\ hist = NoHist

LoadConfig ==
    /\ call.op = "load_config"
    /\ ret.exc = "pending"
    /\ ret' = load_config(call.defaults, call.config, env, file)
    /\ UNCHANGED <<env, file, bak, inproc, pc, loc, call, hist>>

NextLoad == LoadConfig

SpecLoad == InitLoad /\ [][NextLoad]_vars

(***************************************************************************)
(* Claims about load_config (checked under SpecLoad)                       *)
(***************************************************************************)
LoadDone == call.op = "load_config" /\ ret.exc # "pending"

TypedKeys == { i \in 1..Len(Schema) : Schema[i].type # "None" }

\* the raw value load_config_val settles on for the i-th declared key
FoundFor(i) ==
    probe_loop(config_keys_to_check(Schema[i].key, Schema[i].aliases), 1, NoVal,
               env, load_config_file(file).m)

\* a declared key with a raw value that its type rejects
Malformed(i) ==
    /\ i \in TypedKeys /\ FoundFor(i).some
    /\ coerce(Schema[i].type, FoundFor(i).s).exc # "none"

\* a declared key with a raw value that its type accepts
WellFormed(i) ==
    /\ i \in TypedKeys /\ FoundFor(i).some
    /\ coerce(Schema[i].type, FoundFor(i).s).exc = "none"

ErrorsFor(k) == { j \in 1..Len(ret.errors) : ret.errors[j].key = k }

\* C2: a value the explicit config holds for a declared typed key is the
\* value the returned mapping holds for it, whatever the environment, the
\* config file and the default say.
C2_OverrideWins ==
    LoadDone =>
        \A i \in TypedKeys :
            Schema[i].key \in DOMAIN call.config =>
                /\ Schema[i].key \in DOMAIN ret.config
                /\ ret.config[Schema[i].key] = call.config[Schema[i].key]

\* C5: load_config returns whatever raw values are malformed; every key
\* with a well-formed raw value holds the value coerced from it and has no
\* error reported, and every key with a malformed raw value has exactly one.
C5_PartialFailure ==
    LoadDone =>
        /\ ret.exc = "none"
        /\ \A i \in 1..Len(Schema) :
              /\ WellFormed(i) =>
                    /\ Schema[i].key \in DOMAIN ret.config
                    /\ ret.config[Schema[i].key] =
                           coerce(Schema[i].type, FoundFor(i).s).v
                    /\ ErrorsFor(Schema[i].key) = {}
              /\ Malformed(i) => Cardinality(ErrorsFor(Schema[i].key)) = 1

\* K2 is malformed and reported once while K1 and K3 hold their values
C5_Witness ==
    /\ LoadDone
    /\ Malformed(2) /\ WellFormed(1) /\ WellFormed(3)
    /\ Cardinality(ErrorsFor("K2")) = 1
    /\ ret.config["K1"] = BoolV(FALSE)
    /\ ret.config["K3"] = StrV(<<"a","b","c">>)

\* C6: every declared key whose raw value failed coercion is in the
\* returned mapping with its default: the literal, or the callable's value
\* on the config resolved before it.
C6_FailedKeyHasDefault ==
    LoadDone =>
        \A i \in 1..Len(Schema) :
            Malformed(i) =>
                /\ Schema[i].key \in DOMAIN ret.config
                /\ ~Schema[i].default.fn =>
                      ret.config[Schema[i].key] = Schema[i].default.v
                /\ (Schema[i].default.fn /\ Schema[i].default.dep \in DOMAIN ret.config) =>
                      ret.config[Schema[i].key] = ret.config[Schema[i].default.dep]

(***************************************************************************)
(* SpecLoadTypes: one call of load_config over declared keys where the     *)
(* type declared for K2 is drawn as well, supported or not                 *)
(***************************************************************************)
\* the types load_config_val has a branch for
SupportedTypes == {"bool", "str", "int", "list", "dict", "Path"}

\* the declared keys with K2 declared of the given type
SchemaWithType(type) == [Schema EXCEPT ![2].type = type]

InitLoadTypes ==
    /\ env \in LoadEnvs
    /\ file \in LoadFiles
    /\ bak = Absent
    /\ inproc = [p \in Procs |-> EmptyMap]
    /\ pc = [p \in Procs |-> "idle"]
    /\ loc = [p \in Procs |-> IdleLoc]
    /\ call \in { [op |-> "load_config", defaults |-> SchemaWithType(t),
                   config |-> EmptyMap] : t \in {"int", "list", "float", "complex"} }
    /\ ret = NoRet
    /\ hist = NoHist

SpecLoadTypes == InitLoadTypes /\ [][NextLoad]_vars

\* the raw value load_config_val settles on for the i-th key of the call
FoundForCall(i) ==
    probe_loop(config_keys_to_check(call.defaults[i].key, call.defaults[i].aliases),
               1, NoVal, env, load_config_file(file).m)

\* C12: when a declared key has a type outside bool, int, str, Path, list,
\* dict and a raw value is found for it, load_config raises: the error is
\* not reported as a per-key error with the call returning normally.
C12_UnsupportedTypeIsFatal ==
    LoadDone =>
        \A i \in 1..Len(call.defaults) :
            ( /\ call.defaults[i].type \notin SupportedTypes \cup {"None"}
              /\ FoundForCall(i).some ) =>
                /\ ret.exc # "none"
                /\ \A j \in 1..Len(ret.errors) : ret.errors[j].key # call.defaults[i].key

(***************************************************************************)
(* SpecFile: one call of load_config_file on a drawn config file           *)
(***************************************************************************)
MaxOptions == 2   \* options in a block of the file

FileKeys == {"K2", "k2", "K3"}

\* the option names of a block: distinct, in the order of their lines
KeySeqs ==
    { ks \in UNION { [1..n -> FileKeys] : n \in 0..MaxOptions } :
        \A i, j \in 1..Len(ks) : i # j => ks[i] # ks[j] }

\* the lines of a block: every line has a value of its own, written with
\* spaces around it when pad is set
OptsAt(block, ks, pad) ==
    [i \in 1..Len(ks) |->
        <<ks[i], IF pad THEN <<" ">> \o Sentinel(block, i) \o <<" ">>
                 ELSE Sentinel(block, i)>>]

\* a DEFAULT block and the two sections, each of them there or not
FileDocs ==
    { [dflt |-> OptsAt(0, d, pad),
       secs |-> (IF has[1] THEN <<Section("SERVER_CONFIG", OptsAt(1, a, pad))>> ELSE <<>>)
                \o (IF has[2] THEN <<Section("ARCHIVING_CONFIG", OptsAt(2, b, pad))>>
                    ELSE <<>>)] :
        d \in KeySeqs, a \in KeySeqs, b \in KeySeqs, pad \in BOOLEAN,
        has \in [1..2 -> BOOLEAN] }

\* no file, a file that is no INI document, an empty one, the header alone,
\* and the documents in a file that may be read or may not
FilesToLoad ==
    {Absent, Garbled, Truncated, CONFIG_HEADER}
    \cup { Content(layout, nl, doc) :
              layout \in {"edited", "unreadable"}, nl \in {"lf", "crlf"},
              doc \in FileDocs }

InitFile ==
    /\ env = EmptyMap
    /\ file \in FilesToLoad
    /\ bak = Absent
    /\ inproc = [p \in Procs |-> EmptyMap]
    /\ pc = [p \in Procs |-> "idle"]
    /\ loc = [p \in Procs |-> IdleLoc]
    /\ call = [op |-> "load_config_file"]
    /\ ret = NoRet
    /\ hist = NoHist

\* load_config_file() is called; a file that is no INI document makes
\* config_file.read raise
LoadConfigFile ==
    /\ call.op = "load_config_file"
    /\ ret.exc = "pending"
    /\ ret' = IF readable(file) /\ ~parses(file)
              THEN [exc |-> "ParsingError", v |-> NoFileVars]
              ELSE [exc |-> "none", v |-> load_config_file(file)]
    /\ UNCHANGED <<env, file, bak, inproc, pc, loc, call, hist>>

NextFile == LoadConfigFile

SpecFile == InitFile /\ [][NextFile]_vars

(***************************************************************************)
(* Claims about load_config_file (checked under SpecFile)                  *)
(***************************************************************************)
FileDone == call.op = "load_config_file" /\ ret.exc # "pending"

\* the entries of the file in the order of their lines: the DEFAULT block,
\* then section after section
RECURSIVE SectionEntries(_, _)
SectionEntries(doc, i) ==
    IF i > Len(doc.secs) THEN <<>>
    ELSE doc.secs[i].opts \o SectionEntries(doc, i + 1)

FileEntries(doc) == doc.dflt \o SectionEntries(doc, 1)

\* C21: load_config_file returns nothing for a config file that is absent
\* or may not be read; for a file that parses it returns one map whose keys
\* are the upper-cased keys of all entries of the file, each with the value
\* (as a parser reads it) of the last entry of the file that has this
\* upper-cased key.
C21_LastEntryKept ==
    FileDone =>
        /\ ~readable(file) => (ret.exc = "none" /\ ret.v = NoFileVars)
        /\ (readable(file) /\ parses(file)) =>
               LET es == FileEntries(file.doc)
               IN  /\ ret.exc = "none"
                   /\ ret.v.some
                   /\ DOMAIN ret.v.m = { upper_key(es[i][1]) : i \in 1..Len(es) }
                   /\ \A i \in 1..Len(es) :
                          (\A j \in (i + 1)..Len(es) :
                               upper_key(es[j][1]) # upper_key(es[i][1])) =>
                              ret.v.m[upper_key(es[i][1])] = strip(es[i][2])

(***************************************************************************)
(* SpecWrite: one call of write_config_file by one process, over a drawn   *)
(* environment, config file and left-over .bak                             *)
(***************************************************************************)
MaxChanges == 2   \* keys in the change set

ChangeItems == {
    <<"K1", <<"n","o">>>>, <<"K1", <<"m","a","y","b","e">>>>, <<"K1", <<>>>>,
    <<"K2", <<"4","2">>>>, <<"K2", <<" ","7"," ">>>>, <<"K2", <<"f","o","r","t","y">>>>,
    <<"K3", <<"a","b","c">>>>, <<"K3", <<"t","r","u","e">>>>,
    <<"K4", <<"z","z","z">>>>,
    <<"ZZ", <<"x">>>> }

\* the change sets: dicts of at most MaxChanges items, in insertion order
ChangeSets ==
    { c \in UNION { [1..n -> ChangeItems] : n \in 0..MaxChanges } :
        \A i, j \in 1..Len(c) : i # j => c[i][1] # c[j][1] }

WriteFiles == {
    Absent,
    CONFIG_HEADER,
    Content("written", "lf",
            [dflt |-> <<>>,
             secs |-> << Section("SERVER_CONFIG", << <<"K2", <<"7">>>> >>) >>]),
    Content("edited", "crlf",
            [dflt |-> <<>>,
             secs |-> << Section("SERVER_CONFIG",
                                 << <<"K1", <<"n","o">>>>, <<"K2", <<"7">>>> >>),
                         Section("ARCHIVING_CONFIG", << <<"K3", <<"x","y","z">>>> >>) >>]),
    Content("edited", "lf",
            [dflt |-> << <<"K2", <<"5">>>> >>,
             secs |-> << Section("SERVER_CONFIG", << <<"K1", <<"n","o">>>> >>),
                         Section("ARCHIVING_CONFIG", << <<"k3", <<"x","y","z">>>> >>) >>]),
    Content("written", "lf",
            [dflt |-> <<>>,
             secs |-> << Section("SERVER_CONFIG",
                                 << <<"K2", <<"7">>>>, <<"k2", <<"9">>>> >>) >>]) }

WriteEnvs == {
    EmptyMap,
    [k \in {"K2"} |-> <<"4","2">>],
    [k \in {"A1"} |-> <<"y","e","s">>] }

\* a .bak left behind by an earlier call that failed
StaleBak ==
    Content("written", "lf",
            [dflt |-> <<>>,
             secs |-> << Section("SERVER_CONFIG", << <<"K2", <<"1">>>> >>) >>])

Writers == {1}

\* the program started: every section initialised from the environment and
\* the config file without error
InitWrite ==
    /\ env \in WriteEnvs
    /\ file \in WriteFiles
    /\ bak \in {Absent, StaleBak}
    /\ load_all_config(1, EmptyMap, EmptyMap, env, file).exc = "none"
    /\ inproc = [p \in Procs |-> load_all_config(1, EmptyMap, EmptyMap, env, file).attrs]
    /\ pc = [p \in Procs |-> "idle"]
    /\ loc = [p \in Procs |-> IdleLoc]
    /\ call = NoCall
    /\ ret = NoRet
    /\ hist = NoHist

\* the processes between their lines 210 and 211: they have opened the
\* config file for writing and have not written it yet
MidWrite == { q \in Procs : pc[q] = "write" }
OtherMidWrite(p) == MidWrite \ {p} # {}

\* atomic_write(config_path, ...) by p: how it puts the text in place is not
\* in the source, and when it replaces the file the processes that hold it
\* open write to a file that is no longer the config file
Replaced(p) ==
    [hist EXCEPT !.overlap = hist.overlap \/ OtherMidWrite(p),
                 !.orphaned = hist.orphaned \cup (MidWrite \ {p})]

\* write_config_file(config) is called with one of the change sets
WStartWith(p, changes) ==
    /\ pc[p] = "idle"
    /\ \E c \in changes :
          loc' = [loc EXCEPT ![p] = [IdleLoc EXCEPT !.config = c,
                                                    !.pre_file = file,
                                                    !.pre_attrs = inproc[p]]]
    /\ pc' = [pc EXCEPT ![p] = "ensure"]
    /\ UNCHANGED <<env, file, bak, inproc, call, ret, hist>>

WStart(p) == WStartWith(p, ChangeSets)

\* line 185: is there a config file?
WEnsure(p) ==
    /\ pc[p] = "ensure"
    /\ pc' = [pc EXCEPT ![p] = IF file.exists THEN "read" ELSE "create"]
    /\ UNCHANGED <<env, file, bak, inproc, loc, call, ret, hist>>

\* line 186: the config file is created with the header
WCreate(p) ==
    /\ pc[p] = "create"
    /\ file' = atomic_write(CONFIG_HEADER)
    /\ hist' = Replaced(p)
    /\ pc' = [pc EXCEPT ![p] = "read"]
    /\ UNCHANGED <<env, bak, inproc, loc, call, ret>>

\* lines 188-190: the file is parsed
WRead(p) ==
    /\ pc[p] = "read"
    /\ IF parses(file)
       THEN /\ loc' = [loc EXCEPT ![p].config_file = ConfigParser_read(file),
                                  ![p].parsed = ConfigParser_read(file)]
            /\ pc' = [pc EXCEPT ![p] = "backup"]
       ELSE /\ loc' = [loc EXCEPT ![p].exc = "ParsingError"]
            /\ pc' = [pc EXCEPT ![p] = "done"]
    /\ hist' = [hist EXCEPT !.seen[p] = hist.flushed]
    /\ UNCHANGED <<env, file, bak, inproc, call, ret>>

\* line 192: the config file is opened for reading
WBackupRead(p) ==
    /\ pc[p] = "backup"
    /\ file.exists
    /\ loc' = [loc EXCEPT ![p].old = file]
    /\ pc' = [pc EXCEPT ![p] = "backup_write"]
    /\ UNCHANGED <<env, file, bak, inproc, call, ret, hist>>

\* line 193: its text is written to the .bak
WBackup(p) ==
    /\ pc[p] = "backup_write"
    /\ bak' = atomic_write(read_text(loc[p].old))
    /\ hist' = [hist EXCEPT !.bak_by = p]
    /\ pc' = [pc EXCEPT ![p] = "merge"]
    /\ UNCHANGED <<env, file, inproc, loc, call, ret>>

\* lines 196-208: the changes are merged into the parsed document and
\* into the section objects
WMerge(p) ==
    /\ pc[p] = "merge"
    /\ LET r == merge_loop(loc[p].config, 1, loc[p].config_file, inproc[p])
       IN  /\ inproc' = [inproc EXCEPT ![p] = r.attrs]
           /\ loc' = [loc EXCEPT ![p].config_file = r.config_file,
                                 ![p].exc = r.exc]
           /\ pc' = [pc EXCEPT ![p] = IF r.exc = "none" THEN "open" ELSE "done"]
    /\ UNCHANGED <<env, file, bak, call, ret, hist>>

\* line 210: the config file is opened with 'w+', which empties it
WOpen(p) ==
    /\ pc[p] = "open"
    /\ file' = Truncated
    /\ hist' = [hist EXCEPT !.overlap = hist.overlap \/ OtherMidWrite(p),
                            !.orphaned = hist.orphaned \ {p}]
    /\ pc' = [pc EXCEPT ![p] = "write"]
    /\ UNCHANGED <<env, bak, inproc, loc, call, ret>>

\* line 211: the document is written from the start of the open file; the
\* config file is as it was when the open file is no longer the config file
WWrite(p) ==
    /\ pc[p] = "write"
    /\ file' \in Overlay(ConfigParser_write(loc[p].config_file), file)
                    \cup (IF p \in hist.orphaned THEN {file} ELSE {})
    /\ hist' = [hist EXCEPT !.flushed = hist.flushed \cup {p},
                            !.last_flush = p]
    /\ pc' = [pc EXCEPT ![p] = "validate"]
    /\ UNCHANGED <<env, bak, inproc, loc, call, ret>>

\* lines 213-217: the configuration is loaded again from the new file
WValidate(p) ==
    /\ pc[p] = "validate"
    /\ LET r == load_all_config(1, EmptyMap, inproc[p], env, file)
       IN  /\ inproc' = [inproc EXCEPT ![p] = r.attrs]
           /\ loc' = [loc EXCEPT ![p].verr = r.exc,
                                 ![p].updated_config = r.flat_config]
           /\ pc' = [pc EXCEPT ![p] = IF r.exc = "none" THEN "cleanup" ELSE "rollback"]
    /\ UNCHANGED <<env, file, bak, call, ret, hist>>

\* line 219: the .bak is opened for reading; a missing .bak raises in
\* place of the validation error
WRollbackRead(p) ==
    /\ pc[p] = "rollback"
    /\ IF bak.exists
       THEN /\ loc' = [loc EXCEPT ![p].old_bak = bak]
            /\ pc' = [pc EXCEPT ![p] = "restore"]
       ELSE /\ loc' = [loc EXCEPT ![p].exc = "FileNotFoundError"]
            /\ pc' = [pc EXCEPT ![p] = "done"]
    /\ UNCHANGED <<env, file, bak, inproc, call, ret, hist>>

\* lines 220-222: its text is written to the config file and the
\* validation error raised again
WRollback(p) ==
    /\ pc[p] = "restore"
    /\ file' = restore(file, loc[p].old_bak)
    /\ loc' = [loc EXCEPT ![p].exc = loc[p].verr]
    /\ hist' = Replaced(p)
    /\ pc' = [pc EXCEPT ![p] = "done"]
    /\ UNCHANGED <<env, bak, inproc, call, ret>>

\* line 224: is there a .bak? Without one the re-resolved values are
\* returned at once (lines 227-230)
WCleanup(p) ==
    /\ pc[p] = "cleanup"
    /\ IF bak.exists
       THEN /\ pc' = [pc EXCEPT ![p] = "remove"]
            /\ loc' = loc
       ELSE /\ pc' = [pc EXCEPT ![p] = "done"]
            /\ loc' = [loc EXCEPT ![p].result =
                          returned_config(loc[p].config, loc[p].updated_config)]
    /\ UNCHANGED <<env, file, bak, inproc, call, ret, hist>>

\* lines 225-230: the .bak is removed and the re-resolved values returned;
\* os.remove raises when the .bak is gone by now
WRemove(p) ==
    /\ pc[p] = "remove"
    /\ IF bak.exists
       THEN /\ bak' = Absent
            /\ hist' = [hist EXCEPT !.bak_by = 0]
            /\ loc' = [loc EXCEPT ![p].result =
                          returned_config(loc[p].config, loc[p].updated_config)]
       ELSE /\ bak' = bak
            /\ hist' = hist
            /\ loc' = [loc EXCEPT ![p].exc = "FileNotFoundError"]
    /\ pc' = [pc EXCEPT ![p] = "done"]
    /\ UNCHANGED <<env, file, inproc, call, ret>>

write_config_file(p) ==
    \/ WStart(p)
    \/ WEnsure(p)
    \/ WCreate(p)
    \/ WRead(p)
    \/ WBackupRead(p)
    \/ WBackup(p)
    \/ WMerge(p)
    \/ WOpen(p)
    \/ WWrite(p)
    \/ WValidate(p)
    \/ WRollbackRead(p)
    \/ WRollback(p)
    \/ WCleanup(p)
    \/ WRemove(p)

NextWrite == \E p \in Writers : write_config_file(p)

SpecWrite == InitWrite /\ [][NextWrite]_vars

(***************************************************************************)
(* SpecWriteCrash: the same call, which the process may not survive: it    *)
(* can die between any two steps, the two of the overwrite included        *)
(***************************************************************************)
\* the process dies; what it had written to disk stays as it is
WCrash(p) ==
    /\ pc[p] \notin {"idle", "done", "crashed", "crashed_after_overwrite"}
    /\ pc' = [pc EXCEPT ![p] = IF pc[p] \in {"write", "validate", "rollback", "restore"}
                               THEN "crashed_after_overwrite"
                               ELSE "crashed"]
    /\ UNCHANGED <<env, file, bak, inproc, loc, call, ret, hist>>

NextWriteCrash ==
    \E p \in Writers :
        \/ write_config_file(p)
        \/ WCrash(p)

SpecWriteCrash == InitWrite /\ [][NextWriteCrash]_vars

(***************************************************************************)
(* SpecWrite2: two processes call write_config_file on the same config     *)
(* file and .bak, their steps interleaved in any order; there is no lock   *)
(***************************************************************************)
ConcurrentChanges == {
    << <<"K2", <<"4","2">>>> >>,
    << <<"K1", <<"n","o">>>> >>,
    << <<"K2", <<"f","o","r","t","y">>>> >>,
    << <<"K2", <<"4","2">>>>, <<"K3", <<"a","b","c">>>> >> }

ConcurrentFiles == {
    Absent,
    Content("written", "lf",
            [dflt |-> <<>>,
             secs |-> << Section("SERVER_CONFIG", << <<"K2", <<"7">>>> >>) >>]),
    Content("edited", "crlf",
            [dflt |-> <<>>,
             secs |-> << Section("SERVER_CONFIG",
                                 << <<"K1", <<"n","o">>>>, <<"K2", <<"7">>>> >>),
                         Section("ARCHIVING_CONFIG", << <<"K3", <<"x","y","z">>>> >>) >>]) }

InitWrite2 ==
    /\ InitWrite
    /\ env = EmptyMap
    /\ file \in ConcurrentFiles
    /\ bak = Absent

NextWrite2 ==
    \E p \in Procs :
        \/ WStartWith(p, ConcurrentChanges)
        \/ WEnsure(p)
        \/ WCreate(p)
        \/ WRead(p)
        \/ WBackupRead(p)
        \/ WBackup(p)
        \/ WMerge(p)
        \/ WOpen(p)
        \/ WWrite(p)
        \/ WValidate(p)
        \/ WRollbackRead(p)
        \/ WRollback(p)
        \/ WCleanup(p)
        \/ WRemove(p)

SpecWrite2 == InitWrite2 /\ [][NextWrite2]_vars

\* the content of the config file before line 210 overwrites it
BeforeOverwrite(p) ==
    IF loc[p].pre_file.exists THEN loc[p].pre_file ELSE CONFIG_HEADER

\* the call has started to overwrite the file (line 210 has run) and has
\* not validated it
InOverwriteWindow(p) ==
    pc[p] \in {"write", "validate", "rollback", "restore",
               "crashed_after_overwrite"}

\* C14: from the overwrite of the config file until validation succeeded,
\* a crash included, the .bak exists and holds exactly the content the
\* config file had before the overwrite; the .bak is there from the backup
\* step on until validation succeeded, and after a call that failed.
C14_BackupHoldsStartContent ==
    \A p \in Writers :
        /\ InOverwriteWindow(p) => (bak.exists /\ bak = BeforeOverwrite(p))
        /\ pc[p] \in {"merge", "open"} => bak.exists
        /\ (pc[p] = "done" /\ loc[p].exc # "none") => bak.exists

(***************************************************************************)
(* Claims about write_config_file (checked under SpecWrite)                *)
(***************************************************************************)
\* the call is over and its validation had raised
ValidationFailed(p) == pc[p] = "done" /\ loc[p].verr # "none"

\* the call returned normally
Succeeded(p) == pc[p] = "done" /\ loc[p].exc = "none"

\* C3: after a call whose validation raised, the config file is
\* exactly what it was when the call began (absent included) and the error
\* raised is the validation error.
C3_RollbackRestoresStart ==
    \A p \in Writers :
        ValidationFailed(p) =>
            /\ file = loc[p].pre_file
            /\ loc[p].exc = loc[p].verr

\* the file holds key with exactly this value text in the section
HoldsInFile(name, key, val) ==
    /\ file.exists
    /\ name \in SectionNames(file.doc)
    /\ key \in OptKeys(SectionOf(file.doc, name).opts)
    /\ OptGet(SectionOf(file.doc, name).opts, key) = val

TypeOf(key) == Schema[CHOOSE i \in 1..Len(Schema) : Schema[i].key = key].type

\* the configuration resolved again from the environment and the file
Reresolved == load_config(Schema, EmptyMap, env, file)

\* how often the file sets the key, under any casing and in any section
TimesSet(key) ==
    LET opts == file.doc.dflt \o all_items([file.doc EXCEPT !.dflt = <<>>], 1)
    IN  Cardinality({ i \in 1..Len(opts) : upper_key(opts[i][1]) = upper_key(key) })

\* C4 as stated: after a call that returned normally the file holds every
\* changed key with its new value in the owning section, there is no .bak,
\* and resolving the configuration again yields the new value for the key.
C4_WriteTakesEffect ==
    \A p \in Writers :
        Succeeded(p) =>
            \A i \in 1..Len(loc[p].config) :
                LET key == loc[p].config[i][1]
                    val == loc[p].config[i][2]
                IN  /\ HoldsInFile(CONFIGS[section_for_key(key)].toml_section_header,
                                   key, val)
                    /\ ~bak.exists
                    /\ key \in DOMAIN Reresolved.config
                    /\ Returned(Reresolved.config[key]) = coerce(TypeOf(key), val)

\* C4 as amended: the file holds every changed key with its new value in
\* the owning section and there is no .bak; resolving again takes the
\* trimmed new value as the raw value of a typed key when that value is not
\* blank, the environment holds no non-empty value under the key's name and
\* the file sets the key nowhere else.
C4_WriteTakesEffectUnlessShadowed ==
    \A p \in Writers :
        Succeeded(p) =>
            \A i \in 1..Len(loc[p].config) :
                LET key == loc[p].config[i][1]
                    val == loc[p].config[i][2]
                    c == coerce(TypeOf(key), strip(val))
                IN  /\ HoldsInFile(CONFIGS[section_for_key(key)].toml_section_header,
                                   key, val)
                    /\ ~bak.exists
                    /\ ( /\ TypeOf(key) # "None"
                         /\ strip(val) # <<>>
                         /\ ~truthy(get(env, key))
                         /\ TimesSet(key) = 1 ) =>
                           IF c.exc = "none"
                           THEN /\ key \in DOMAIN Reresolved.config
                                /\ Reresolved.config[key] = c.v
                           ELSE \E j \in 1..Len(Reresolved.errors) :
                                    Reresolved.errors[j].key = key

\* a call that wrote K2 = " 7 " over an older K2, after which K2 resolves to 7
C4_Witness ==
    \E p \in Writers :
        /\ Succeeded(p)
        /\ loc[p].config = << <<"K2", <<" ","7"," ">>>> >>
        /\ "SERVER_CONFIG" \in SectionNames(loc[p].pre_file.doc)
        /\ HoldsInFile("SERVER_CONFIG", "K2", <<" ","7"," ">>)
        /\ ~bak.exists
        /\ TimesSet("K2") = 1
        /\ Reresolved.config["K2"] = IntV(7)

\* the flat configuration all sections resolve to from the present
\* environment and file
ReloadedAll == load_all_config(1, EmptyMap, EmptyMap, env, file)

\* C13: a call that returned normally returns a mapping whose keys are
\* exactly the upper-cased keys of the change set and whose values are the
\* values those keys have in the configuration resolved again after the
\* write.
C13_ReturnsReresolvedValues ==
    \A p \in Writers :
        Succeeded(p) =>
            /\ DOMAIN loc[p].result =
                   { upper_key(loc[p].config[i][1]) : i \in 1..Len(loc[p].config) }
            /\ ReloadedAll.exc = "none"
            /\ \A K \in DOMAIN loc[p].result :
                   /\ K \in DOMAIN ReloadedAll.flat_config
                   /\ loc[p].result[K] = ReloadedAll.flat_config[K]
                   /\ loc[p].result[K] = loc[p].updated_config[K]

\* a call that wrote K1 = "no" and K2 = "42" and returned False and 42
C13_Witness ==
    \E p \in Writers :
        /\ Succeeded(p)
        /\ loc[p].config = << <<"K1", <<"n","o">>>>, <<"K2", <<"4","2">>>> >>
        /\ loc[p].result = [K \in {"K1", "K2"} |->
                               IF K = "K1" THEN BoolV(FALSE) ELSE IntV(42)]

\* the options a parser sees in a section of the file: its own, then the
\* DEFAULT ones it does not set
SeenIn(content, name) ==
    LET doc == ConfigParser_read(content)
    IN  section_items(doc, SectionOf(doc, name).opts)

\* the change set names the key for this section
Named(p, name, key) ==
    \E i \in 1..Len(loc[p].config) :
        /\ loc[p].config[i][1] = key
        /\ CONFIGS[section_for_key(key)].toml_section_header = name

\* C17: after a call that returned normally every section the file had is
\* still in it, and every key of every section that the change set does not
\* name for that section has the value it had before; the DEFAULT entries
\* are as before too.
C17_OtherEntriesKept ==
    \A p \in Writers :
        Succeeded(p) =>
            LET before == ConfigParser_read(loc[p].pre_file)
                after == ConfigParser_read(file)
            IN  /\ SectionNames(before) \subseteq SectionNames(after)
                /\ after.dflt = before.dflt
                /\ \A name \in SectionNames(before) :
                       \A key \in OptKeys(SeenIn(loc[p].pre_file, name)) :
                           ~Named(p, name, key) =>
                               /\ key \in OptKeys(SeenIn(file, name))
                               /\ OptGet(SeenIn(file, name), key) =
                                      OptGet(SeenIn(loc[p].pre_file, name), key)

\* a call that set K2 = "42" in a file with K1 and K2 in one section and K3
\* in another: K1 and K3 are as they were
C17_Witness ==
    \E p \in Writers :
        /\ Succeeded(p)
        /\ loc[p].config = << <<"K2", <<"4","2">>>> >>
        /\ SectionNames(loc[p].pre_file.doc) = {"SERVER_CONFIG", "ARCHIVING_CONFIG"}
        /\ OptGet(SeenIn(loc[p].pre_file, "SERVER_CONFIG"), "K2") = <<"7">>
        /\ OptGet(SeenIn(file, "SERVER_CONFIG"), "K2") = <<"4","2">>
        /\ OptGet(SeenIn(file, "SERVER_CONFIG"), "K1") = <<"n","o">>
        /\ OptGet(SeenIn(file, "ARCHIVING_CONFIG"), "K3") = <<"x","y","z">>

\* C19: after a call whose validation raised, every key of the change set
\* has in its section object the value it had before the call.
C19_RollbackRestoresSections ==
    \A p \in Writers :
        ValidationFailed(p) =>
            \A i \in 1..Len(loc[p].config) :
                LET key == loc[p].config[i][1]
                IN  /\ key \in DOMAIN inproc[p]
                    /\ inproc[p][key] = loc[p].pre_attrs[key]

(***************************************************************************)
(* Claims about two concurrent calls (checked under SpecWrite2)            *)
(***************************************************************************)
\* the call is over, it has rewritten the file and its validation succeeded
Validated(p) == pc[p] = "done" /\ p \in hist.flushed /\ loc[p].verr = "none"

\* the document holds key with exactly this value text in the section
DocHolds(doc, name, key, val) ==
    /\ name \in SectionNames(doc)
    /\ key \in OptKeys(SectionOf(doc, name).opts)
    /\ OptGet(SectionOf(doc, name).opts, key) = val

\* item i of q's change set is a change q made that the file can owe to q
\* alone: the file q parsed did not hold it and the change set of the
\* process last does not name its key
ChangeMadeBy(q, i, last) ==
    LET key == loc[q].config[i][1]
        name == CONFIGS[section_for_key(key)].toml_section_header
    IN  /\ ~DocHolds(loc[q].parsed, name, key, loc[q].config[i][2])
        /\ ~Named(last, name, key)

\* the file is the document of the process whose line 211 ran last, and a
\* change of another process is in it only if that process had parsed the
\* file after the change was written
LastRewriteWins ==
    LET last == hist.last_flush
    IN  /\ file = ConfigParser_write(loc[last].config_file)
        /\ \A q \in Procs \ {last} :
               \A i \in 1..Len(loc[q].config) :
                   LET key == loc[q].config[i][1]
                   IN  ( /\ ChangeMadeBy(q, i, last)
                         /\ HoldsInFile(CONFIGS[section_for_key(key)].toml_section_header,
                                        key, loc[q].config[i][2]) )
                       => q \in hist.seen[last]

\* C18 as stated: when both validations succeeded, the file is exactly the
\* document written by the process that rewrote the file last, and a change
\* made by the other process is in the file only if the last writer parsed
\* the file after that change was written.
C18_LastRewriteWins ==
    (\A p \in Procs : Validated(p)) => LastRewriteWins

\* C18 as amended: the same, when no process created, emptied or restored
\* the config file while the other was between its lines 210 and 211 (the
\* file opened for writing, the document not yet written).
C18_LastRewriteWinsUnlessOverlapped ==
    ((\A p \in Procs : Validated(p)) /\ ~hist.overlap) => LastRewriteWins

\* process 1 set K1 = "no" and process 2, which had parsed the file before
\* that was written, rewrote the file last with K2 = "42": K1 is lost
C18_Witness ==
    /\ \A p \in Procs : Validated(p)
    /\ ~hist.overlap
    /\ loc[1].config = << <<"K1", <<"n","o">>>> >>
    /\ loc[2].config = << <<"K2", <<"4","2">>>> >>
    /\ hist.last_flush = 2
    /\ 1 \notin hist.seen[2]
    /\ file = ConfigParser_write(loc[2].config_file)
    /\ HoldsInFile("SERVER_CONFIG", "K2", <<"4","2">>)
    /\ ~HoldsInFile("SERVER_CONFIG", "K1", <<"n","o">>)

\* what p wrote to the .bak at line 193: the text it had read from the
\* config file at line 192
OwnBackup(p) == atomic_write(read_text(loc[p].old))

\* C20 as stated: with two concurrent calls, a process whose validation
\* failed finds the .bak at its rollback, the .bak it reads holds what that
\* process wrote to it, and the rollback gives the config file the content
\* it had when that process took its backup (taken as the text read at line
\* 192).
C20_RollbackRestoresOwnBackup ==
    [][\A p \in Procs :
          /\ (pc[p] = "rollback" /\ pc'[p] # "rollback") =>
                 (pc'[p] = "restore" /\ loc'[p].old_bak = OwnBackup(p))
          /\ (pc[p] = "restore" /\ pc'[p] = "done") => file' = OwnBackup(p)]_vars

\* C20 as amended: when no other process has written or removed the .bak
\* since this process wrote it, the .bak read at rollback exists and holds
\* what this process wrote; and a rollback that read that text gives it to
\* the config file (the text as read at line 192, line ends included) and
\* raises the validation error.
C20_RollbackRestoresBackupLeftAlone ==
    [][\A p \in Procs :
          /\ (pc[p] = "rollback" /\ pc'[p] # "rollback" /\ hist.bak_by = p) =>
                 (pc'[p] = "restore" /\ loc'[p].old_bak = OwnBackup(p))
          /\ (pc[p] = "restore" /\ pc'[p] = "done" /\ loc[p].old_bak = OwnBackup(p)) =>
                 (file' = OwnBackup(p) /\ loc'[p].exc = loc[p].verr)]_vars

\* process 1 failed validation with K2 = "forty" and rolled back from the
\* .bak it wrote itself, over the one process 2 had written before; process
\* 2 is still between its backup and its rewrite
C20_Witness ==
    /\ ValidationFailed(1)
    /\ loc[1].config = << <<"K2", <<"f","o","r","t","y">>>> >>
    /\ loc[1].exc = loc[1].verr
    /\ loc[1].old.exists
    /\ loc[1].old_bak = OwnBackup(1)
    /\ hist.bak_by = 1
    /\ file = OwnBackup(1)
    /\ pc[2] \in {"merge", "open"}

\* C7: a change set with a key that no section owns makes the call fail
\* with nothing applied: the file is what it was and no section object has
\* a changed value.
C7_UnownedKeyAppliesNothing ==
    \A p \in Writers :
        ( /\ pc[p] = "done"
          /\ \E i \in 1..Len(loc[p].config) : section_for_key(loc[p].config[i][1]) = 0 ) =>
            /\ loc[p].exc # "none"
            /\ file = loc[p].pre_file
            /\ inproc[p] = loc[p].pre_attrs

====
